---- MODULE Spec2Model ----
(***************************************************************************)
(* Model of the firmware flashing pipeline of src/src/example.ts:          *)
(* flashFirmware, resetToBootloader, findBootloaderPort, handleFileSelect  *)
(* and updateUI.  JavaScript runs each handler to completion between two   *)
(* awaits, so there is one action per await: the action fires when the     *)
(* awaited promise settles, draws its outcome (resolved or rejected) and   *)
(* runs the synchronous code up to the next await.                         *)
(***************************************************************************)
EXTENDS Integers, Sequences, FiniteSets, TLC

\* ------------------------------------------------------------------ bounds
\* Serial ports known to the browser are 1..NumPorts.
NumPorts == 3
\* Firmware files have 0..MaxLen bytes; flash leaves 0..MaxLen-1 bytes of room.
MaxLen == 2
\* File reads (handleFileSelect suspended at file.arrayBuffer()) in flight.
MaxPending == 1
\* Length of the list navigator.serial.getPorts() resolves with.
MaxListed == 2

\* ------------------------------------------------------- program constants
BOOTLOADER_SIZE == 8192

\* The usbVendorId values of USB_FILTERS: 0x239A, 0x2341, 0x1B4F, 0x03EB.
USB_FILTERS == {39322, 9025, 6991, 1003}

\* firmwareData = null; a loaded image is modelled by its length.
NoData == -1
\* A null SerialPort reference (normalPort, bootloaderPort).
NoPort == 0
\* device.flash is undefined / not yet known.
NoFlash == -1

Ports == 1..NumPorts

\* port.getInfo().usbVendorId of each port: two boards of the allow-list, an
\* adapter of another vendor, and ports without USB information (undefined).
usbVendorId(p) ==
  CASE p = 1 -> 9025
    [] p = 2 -> 39322
    [] p = 3 -> 1027
    [] OTHER -> 0

FwLens == 0..MaxLen

\* flash.totalSize as device.create() may resolve it: with and without room
\* above the bootloader area.
TotalSizes == (0..(MaxLen - 1)) \cup {BOOTLOADER_SIZE + k : k \in 0..(MaxLen - 1)}

\* Family of device.ts, as far as flashFirmware distinguishes its members.
Families == {"FAMILY_SAMD21", "FAMILY_SAMR21", "FAMILY_SAML21", "FAMILY_OTHER"}

VARIABLES
  firmwareData,       \* module-level firmwareData: NoData or the image length
  pendingReads,       \* lengths of the files whose arrayBuffer() is awaited
  flashBtnDisabled,   \* flashBtn.disabled
  fileInputDisabled,  \* fileInput.disabled
  progress,           \* progressBar.value
  serialSupported,    \* 'serial' in navigator
  pc,                 \* the await flashFirmware is suspended at
  normalPort,         \* local normalPort
  bootloaderPort,     \* local bootloaderPort
  samba,              \* local samba # null
  family,             \* device.family once device.create() resolved
  totalSize,          \* device.flash.totalSize, NoFlash if device.flash is unset
  flashOffset,        \* local flashOffset
  portOpen,           \* the ports that are open
  issued,             \* history: the tracked calls the run has made
  completed,          \* history: the tracked calls that resolved
  outcomes,           \* history: the final outcomes the run has logged
  caught,             \* history: the errors that reached the catch block
  cleanupLog,         \* the cleanup calls whose rejection was logged
  rejected,           \* history: the tracked calls that rejected
  openedByRun,        \* history: ports an open of this run succeeded on
  closeIssued,        \* history: ports close() was called on since that open
  checkedLen,         \* history: firmwareData.length read by the size check
  writeArg,           \* history: the image handed to flasher.write
  offsetArgs,         \* history: the offsets handed to erase and to write
  touchLog            \* history: the calls of resetToBootloader that settled

vars == <<firmwareData, pendingReads, flashBtnDisabled, fileInputDisabled,
          progress, serialSupported, pc, normalPort, bootloaderPort, samba,
          family, totalSize, flashOffset, portOpen, issued, completed,
          outcomes, caught, cleanupLog, rejected, openedByRun, closeIssued, checkedLen,
          writeArg, offsetArgs, touchLog>>

ui == <<flashBtnDisabled, fileInputDisabled>>
locals == <<normalPort, bootloaderPort, samba>>
device == <<family, totalSize, flashOffset>>
portHist == <<openedByRun, closeIssued>>
report == <<outcomes, caught, cleanupLog>>
flashArgs == <<writeArg, offsetArgs>>
callArgs == <<flashArgs, touchLog>>

\* ------------------------------------------------------------------ errors
\* A rejection is an Error with a name and a message.
Err(n, m) == [name |-> n, message |-> m]

NotFoundError == Err("NotFoundError", "No port selected by the user.")
SecurityError == Err("SecurityError", "Must be handling a user gesture.")
Unresponsive == Err("Error", "Unresponsive")
DeviceUnsupported == Err("Error", "DeviceUnsupported")
Malformed == Err("Error", "Malformed")
EraseTimeout == Err("Error", "EraseTimeout")
WriteTimeout == Err("Error", "WriteTimeout")
ImageTooLarge == Err("Error", "ImageTooLarge")
LinkClosed == Err("NetworkError", "The device has been lost.")
NoFlashError == Err("Error", "Flash not available on this device")
FirmwareTooLarge == Err("Error", "Firmware is larger than available flash")
NullLength == Err("TypeError", "Cannot read properties of null (reading 'length')")

\* error.message.includes('DeviceUnsupported')
MessageIncludesDeviceUnsupported(m) == m \in {"DeviceUnsupported"}

\* Mutant of Classify: the DeviceUnsupported branch of the catch block is lost.
ClassifyGeneric(e) ==
  IF e.name = "NotFoundError" THEN "cancelled" ELSE "failed"

\* Mutant of Classify: the NotFoundError branch of the catch block is lost.
ClassifyCancelAsFailure(e) ==
  IF MessageIncludesDeviceUnsupported(e.message) THEN "unsupported" ELSE "failed"

\* The branch of the catch block an error takes: what the run reports.
Classify(e) ==
  IF e.name = "NotFoundError" THEN "cancelled"
  ELSE IF MessageIncludesDeviceUnsupported(e.message) THEN "unsupported"
  ELSE "failed"

Outcome(e) == [kind |-> Classify(e), message |-> e.message]
Success == [kind |-> "success", message |-> "Flash complete"]

\* --------------------------------------------------------------- helpers
\* updateUI(): flashBtn.disabled = !hasFirmware.
updateUI(data) == data = NoData

\* Mutant of OffsetOf: the SAML21 family is not recognised as having a
\* bootloader area.
OffsetOfWithoutSAML21(f) ==
  IF f \in {"FAMILY_SAMD21", "FAMILY_SAMR21"}
  THEN BOOTLOADER_SIZE
  ELSE 0

\* The family test that selects the flash offset.
OffsetOf(f) ==
  IF f \in {"FAMILY_SAMD21", "FAMILY_SAMR21", "FAMILY_SAML21"}
  THEN BOOTLOADER_SIZE
  ELSE 0

\* Mutant of FirstKnownPort: the vendor test of the loop is lost.
FirstKnownPortAnyVendor(ports) ==
  IF ports = <<>> THEN NoPort ELSE Head(ports)

\* The for loop of findBootloaderPort over the listed ports.
RECURSIVE FirstKnownPort(_)
FirstKnownPort(ports) ==
  IF ports = <<>> THEN NoPort
  ELSE IF usbVendorId(Head(ports)) # 0 /\ usbVendorId(Head(ports)) \in USB_FILTERS
       THEN Head(ports)
       ELSE FirstKnownPort(Tail(ports))

\* What getPorts() may resolve with.
PortLists == UNION {[1..n -> Ports] : n \in 0..MaxListed}

\* requestPort({filters: USB_FILTERS}) offers only ports of the allow-list.
Selectable == {p \in Ports : usbVendorId(p) \in USB_FILTERS}

\* The cleanup of the catch block skips, without suspending, the steps whose
\* reference is null.
AfterBootClosePc ==
  IF normalPort # NoPort /\ normalPort # bootloaderPort
  THEN "cleanupNormalClose"
  ELSE "done"

AfterDisconnectPc ==
  IF bootloaderPort # NoPort THEN "cleanupBootClose" ELSE AfterBootClosePc

AfterCatchPc ==
  IF samba THEN "cleanupDisconnect" ELSE AfterDisconnectPc

\* The calls whose history is kept: the protocol commands of the pipeline and
\* the cleanup calls.  The port prompts, the probe and the touch reset show in
\* pc and in the state of the ports.
Tracked == {"connect", "create", "erase", "write", "reset", "disconnect",
            "close", "cleanupDisconnect", "cleanupBootClose",
            "cleanupNormalClose"}

\* Mutant of Goto: the finally block is lost.
GotoWithoutFinally(next) ==
  /\ pc' = next
  /\ issued' = issued \cup ({next} \cap Tracked)
  /\ UNCHANGED ui

\* The run makes the call `next` and suspends at it; reaching the end of the
\* function runs the finally block.
Goto(next) ==
  /\ pc' = next
  /\ issued' = issued \cup ({next} \cap Tracked)
  /\ IF next = "done"
     THEN /\ flashBtnDisabled' = FALSE
          /\ fileInputDisabled' = FALSE
     ELSE UNCHANGED ui

\* The awaited call `op` resolved / rejected.
Resolved(op) ==
  /\ completed' = completed \cup ({op} \cap Tracked)
  /\ UNCHANGED rejected

Rejected(op) ==
  /\ rejected' = rejected \cup ({op} \cap Tracked)
  /\ UNCHANGED completed

\* An error reaches the catch block: it is reported, then cleanup starts.
Throw(e) ==
  /\ caught' = Append(caught, [at |-> pc, error |-> e])
  /\ outcomes' = Append(outcomes, Outcome(e))
  /\ Goto(AfterCatchPc)
  /\ UNCHANGED <<locals, cleanupLog>>

\* port.open() resolved on p / port.close() was called on p.
Opened(p) ==
  /\ p \notin portOpen
  /\ portOpen' = portOpen \cup {p}
  /\ openedByRun' = openedByRun \cup {p}
  /\ closeIssued' = closeIssued \ {p}

CloseCalled(p) == closeIssued' = closeIssued \cup {p} /\ UNCHANGED openedByRun

\* ------------------------------------------------------------------- init
Init ==
  /\ firmwareData = NoData
  /\ pendingReads = <<>>
  /\ flashBtnDisabled = TRUE
  /\ fileInputDisabled = FALSE
  /\ progress = 0
  /\ serialSupported \in BOOLEAN
  /\ pc = "idle"
  /\ normalPort = NoPort
  /\ bootloaderPort = NoPort
  /\ samba = FALSE
  /\ family = "none"
  /\ totalSize = NoFlash
  /\ flashOffset = 0
  /\ portOpen = {}
  /\ issued = {}
  /\ completed = {}
  /\ outcomes = <<>>
  /\ caught = <<>>
  /\ cleanupLog = {}
  /\ rejected = {}
  /\ openedByRun = {}
  /\ closeIssued = {}
  /\ checkedLen = NoData
  /\ writeArg = NoData
  /\ offsetArgs = <<>>
  /\ touchLog = <<>>

\* ------------------------------------------------------- handleFileSelect
Remove(s, i) == [j \in 1..(Len(s) - 1) |-> IF j < i THEN s[j] ELSE s[j + 1]]

\* The change event with no file chosen.
FileCleared ==
  /\ ~fileInputDisabled
  /\ firmwareData' = NoData
  /\ flashBtnDisabled' = updateUI(NoData)
  /\ UNCHANGED <<pendingReads, fileInputDisabled, progress, serialSupported, pc,
                 locals, device, portOpen, issued, completed, report,
                 rejected, portHist, checkedLen, callArgs>>

\* The change event with a file: the handler suspends at file.arrayBuffer().
FileChosen ==
  /\ ~fileInputDisabled
  /\ Len(pendingReads) < MaxPending
  /\ \E len \in FwLens : pendingReads' = Append(pendingReads, len)
  /\ UNCHANGED <<firmwareData, ui, progress, serialSupported, pc, locals,
                 device, portOpen, issued, completed, report, rejected,
                 portHist, checkedLen, callArgs>>

\* arrayBuffer() resolved: firmwareData is replaced and updateUI runs.
FileRead ==
  \E i \in 1..Len(pendingReads) :
    /\ firmwareData' = pendingReads[i]
    /\ pendingReads' = Remove(pendingReads, i)
    /\ flashBtnDisabled' = updateUI(pendingReads[i])
    /\ UNCHANGED <<fileInputDisabled, progress, serialSupported, pc, locals,
                   device, portOpen, issued, completed, report, rejected,
                   portHist, checkedLen, callArgs>>

\* arrayBuffer() rejected: firmwareData is cleared and updateUI runs.
FileReadFailed ==
  \E i \in 1..Len(pendingReads) :
    /\ firmwareData' = NoData
    /\ pendingReads' = Remove(pendingReads, i)
    /\ flashBtnDisabled' = updateUI(NoData)
    /\ UNCHANGED <<fileInputDisabled, progress, serialSupported, pc, locals,
                   device, portOpen, issued, completed, report, rejected,
                   portHist, checkedLen, callArgs>>

\* ----------------------------------------------------------- flashFirmware
\* Variables no step of the run writes.
env == <<firmwareData, pendingReads, serialSupported>>

\* flashFirmware is called on a freshly loaded page, by a click on the flash
\* button or by a user of the exported function: the guards, then the
\* controls are disabled and the first port prompt is shown.
FlashStart ==
  /\ pc = "idle"
  /\ IF firmwareData = NoData \/ ~serialSupported
     THEN /\ pc' = "returned"
          /\ UNCHANGED <<ui, progress>>
     ELSE /\ flashBtnDisabled' = TRUE
          /\ fileInputDisabled' = TRUE
          /\ progress' = 0
          /\ pc' = "requestPort1"
  /\ UNCHANGED <<env, locals, device, portOpen, issued, completed, report,
                 rejected, portHist, checkedLen, callArgs>>

\* navigator.serial.requestPort() of step 1 settles; on a port the probe
\* opens it at the bootloader baud rate.
RequestPort1 ==
  /\ pc = "requestPort1"
  /\ \/ \E p \in Selectable :
          /\ normalPort' = p
          /\ Resolved("requestPort1")
          /\ Goto("probeOpen")
          /\ UNCHANGED <<bootloaderPort, samba, report>>
     \/ \E e \in {NotFoundError, SecurityError} :
          /\ Rejected("requestPort1")
          /\ Throw(e)
  /\ UNCHANGED <<env, progress, device, portOpen, portHist, checkedLen, callArgs>>

\* resetToBootloader returned: the port reference is dropped and
\* findBootloaderPort lists the authorized ports.
ResetReturns ==
  /\ normalPort' = NoPort
  /\ Goto("getPorts")
  /\ UNCHANGED <<bootloaderPort, samba, report>>

\* new SamBA(bootloaderPort) and samba.connect().
StartConnect(p) ==
  /\ bootloaderPort' = p
  /\ samba' = TRUE
  /\ Goto("connect")
  /\ UNCHANGED <<normalPort, report>>

\* Mutant of isBootloaderMode: a probe that opened and closed the port is
\* taken as proof of bootloader mode.
isBootloaderModeAfterProbe(probed) == probed

\* The value of isBootloaderMode after the probe: false where the probe ran
\* to its end and false in its catch.
isBootloaderMode(probed) == FALSE

\* The branch on isBootloaderMode: the touch reset, or the selected port is
\* used as bootloader port.
AfterProbe(probed) ==
  IF isBootloaderMode(probed)
  THEN StartConnect(normalPort)
  ELSE Goto("touchOpen") /\ UNCHANGED <<locals, report>>

\* The probe's normalPort.open() settles; a rejection is caught by the probe's
\* own catch.
ProbeOpen ==
  /\ pc = "probeOpen"
  /\ \/ /\ Opened(normalPort)
        /\ Resolved("probeOpen")
        /\ Goto("probeClose")
        /\ UNCHANGED <<locals, report>>
     \/ /\ Rejected("probeOpen")
        /\ AfterProbe(FALSE)
        /\ UNCHANGED <<portOpen, portHist>>
  /\ UNCHANGED <<env, progress, device, checkedLen, callArgs>>

\* The probe's normalPort.close() settles; no protocol command is sent
\* between the open and the close.
ProbeClose ==
  /\ pc = "probeClose"
  /\ CloseCalled(normalPort)
  /\ \/ /\ normalPort \in portOpen
        /\ portOpen' = portOpen \ {normalPort}
        /\ Resolved("probeClose")
        /\ AfterProbe(TRUE)
     \/ /\ Rejected("probeClose")
        /\ UNCHANGED portOpen
        /\ AfterProbe(FALSE)
  /\ UNCHANGED <<env, progress, device, checkedLen, callArgs>>

\* ------------------------------------------------------- resetToBootloader
\* The call of resetToBootloader the run is suspended at, with its argument.
TouchCall(op) ==
  CASE op = "touchOpen" -> "open baudRate 1200"
    [] op = "touchSignals1" -> "setSignals dataTerminalReady false"
    [] op = "touchSleep1" -> "sleep 100"
    [] op = "touchSignals2" -> "setSignals dataTerminalReady true"
    [] op = "touchSleep2" -> "sleep 100"
    [] op = "touchSignals3" -> "setSignals dataTerminalReady false"
    [] op = "touchClose" -> "close"
    [] op = "touchSettle" -> "sleep 2000"

\* The call the run is suspended at settled.
Logged(ok) == touchLog' = Append(touchLog, [call |-> TouchCall(pc), ok |-> ok])

\* port.open({baudRate: 1200}) settles.
TouchOpen ==
  /\ pc = "touchOpen"
  /\ \/ /\ Opened(normalPort)
        /\ Resolved("touchOpen")
        /\ Logged(TRUE)
        /\ Goto("touchSignals1")
        /\ UNCHANGED <<locals, report>>
     \/ /\ Rejected("touchOpen")
        /\ Logged(FALSE)
        /\ ResetReturns
        /\ UNCHANGED <<portOpen, portHist>>
  /\ UNCHANGED <<env, progress, device, checkedLen, flashArgs>>

\* Mutant of TouchNext: DTR is not asserted between the two deassertions.
TouchNextWithoutAssert(op) ==
  CASE op = "touchSignals1" -> "touchSleep2"
    [] op = "touchSleep1" -> "touchSignals2"
    [] op = "touchSignals2" -> "touchSleep2"
    [] op = "touchSleep2" -> "touchSignals3"
    [] op = "touchSignals3" -> "touchClose"

\* A step of resetToBootloader between open and close settles: the three
\* setSignals calls and the two short sleeps.  A rejected setSignals is caught
\* by resetToBootloader, which returns without closing the port.
TouchNext(op) ==
  CASE op = "touchSignals1" -> "touchSleep1"
    [] op = "touchSleep1" -> "touchSignals2"
    [] op = "touchSignals2" -> "touchSleep2"
    [] op = "touchSleep2" -> "touchSignals3"
    [] op = "touchSignals3" -> "touchClose"

\* Mutant of TouchSignals: without the try/catch of resetToBootloader a
\* rejected setSignals reaches the catch block of flashFirmware.
TouchSignalsPropagates ==
  /\ pc \in {"touchSignals1", "touchSignals2", "touchSignals3"}
  /\ \/ /\ Resolved(pc)
        /\ Logged(TRUE)
        /\ Goto(TouchNext(pc))
        /\ UNCHANGED <<locals, report>>
     \/ /\ Rejected(pc)
        /\ Logged(FALSE)
        /\ Throw(Err("NetworkError", "Failed to set control signals."))
  /\ UNCHANGED <<env, progress, device, portOpen, portHist, checkedLen, flashArgs>>

TouchSignals ==
  /\ pc \in {"touchSignals1", "touchSignals2", "touchSignals3"}
  /\ \/ /\ Resolved(pc)
        /\ Logged(TRUE)
        /\ Goto(TouchNext(pc))
        /\ UNCHANGED <<locals, report>>
     \/ /\ Rejected(pc)
        /\ Logged(FALSE)
        /\ ResetReturns
  /\ UNCHANGED <<env, progress, device, portOpen, portHist, checkedLen, flashArgs>>

TouchSleep ==
  /\ pc \in {"touchSleep1", "touchSleep2"}
  /\ Resolved(pc)
  /\ Logged(TRUE)
  /\ Goto(TouchNext(pc))
  /\ UNCHANGED <<env, progress, locals, device, portOpen, portHist, report,
                 checkedLen, flashArgs>>

\* port.close() settles: on success the settle sleep follows, a rejection is
\* caught and resetToBootloader returns at once.
TouchClose ==
  /\ pc = "touchClose"
  /\ CloseCalled(normalPort)
  /\ \/ /\ normalPort \in portOpen
        /\ portOpen' = portOpen \ {normalPort}
        /\ Resolved("touchClose")
        /\ Logged(TRUE)
        /\ Goto("touchSettle")
        /\ UNCHANGED <<locals, report>>
     \/ /\ Rejected("touchClose")
        /\ Logged(FALSE)
        /\ ResetReturns
        /\ UNCHANGED portOpen
  /\ UNCHANGED <<env, progress, device, checkedLen, flashArgs>>

\* sleep(2000) elapsed.
TouchSettle ==
  /\ pc = "touchSettle"
  /\ Resolved("touchSettle")
  /\ Logged(TRUE)
  /\ ResetReturns
  /\ UNCHANGED <<env, progress, device, portOpen, portHist, checkedLen, flashArgs>>

\* ------------------------------------------------------ findBootloaderPort
\* getPorts() settles: the first listed port of the allow-list is taken; with
\* none, or when getPorts rejects, the manual prompt is shown.
GetPorts ==
  /\ pc = "getPorts"
  /\ \/ \E ports \in PortLists :
          /\ Resolved("getPorts")
          /\ IF FirstKnownPort(ports) # NoPort
             THEN StartConnect(FirstKnownPort(ports))
             ELSE Goto("requestPort2") /\ UNCHANGED <<locals, report>>
     \/ /\ Rejected("getPorts")
        /\ Goto("requestPort2")
        /\ UNCHANGED <<locals, report>>
  /\ UNCHANGED <<env, progress, device, portOpen, portHist, checkedLen, callArgs>>

\* The fallback requestPort() settles.
RequestPort2 ==
  /\ pc = "requestPort2"
  /\ \/ \E p \in Selectable :
          /\ Resolved("requestPort2")
          /\ StartConnect(p)
     \/ \E e \in {NotFoundError, SecurityError} :
          /\ Rejected("requestPort2")
          /\ Throw(e)
  /\ UNCHANGED <<env, progress, device, portOpen, portHist, checkedLen, callArgs>>

\* ---------------------------------------------------------------- pipeline
\* Mutant of Connect: a rejected connect() does not stop the pipeline.
ConnectIgnoringFailure ==
  /\ pc = "connect"
  /\ \/ /\ Opened(bootloaderPort)
        /\ Resolved("connect")
     \/ /\ Rejected("connect")
        /\ UNCHANGED <<portOpen, portHist>>
  /\ Goto("create")
  /\ UNCHANGED <<env, progress, locals, report, device, checkedLen, callArgs>>

\* samba.connect() settles.  It opens the port and negotiates with the
\* bootloader: it resolves with the port open, or rejects because the port
\* could not be opened or because no valid response arrived in time (the port
\* then stays open).
Connect ==
  /\ pc = "connect"
  /\ \/ /\ Opened(bootloaderPort)
        /\ Resolved("connect")
        /\ Goto("create")
        /\ UNCHANGED <<locals, report>>
     \/ /\ Opened(bootloaderPort)
        /\ Rejected("connect")
        /\ Throw(Unresponsive)
     \/ /\ Rejected("connect")
        /\ Throw(Err("NetworkError", "Failed to open serial port."))
        /\ UNCHANGED <<portOpen, portHist>>
  /\ UNCHANGED <<env, progress, device, checkedLen, callArgs>>

\* Mutant of TooLarge: an image that exactly fills the flash is refused.
TooLargeOffByOne(len, total, offset) == len >= total - offset

\* The size check: firmwareData.length > availableFlash.
TooLarge(len, total, offset) == len > total - offset

\* The synchronous code that follows a resolved device.create(): the flash
\* descriptor, the flash offset, the size check, then flasher.erase().
AfterCreate(f, total) ==
  /\ family' = f
  /\ totalSize' = total
  /\ IF total = NoFlash
     THEN /\ Throw(NoFlashError)
          /\ UNCHANGED <<flashOffset, checkedLen, offsetArgs>>
     ELSE /\ flashOffset' = OffsetOf(f)
          /\ IF firmwareData = NoData
             THEN Throw(NullLength) /\ UNCHANGED <<checkedLen, offsetArgs>>
             ELSE /\ checkedLen' = firmwareData
                  /\ IF TooLarge(firmwareData, total, OffsetOf(f))
                     THEN Throw(FirmwareTooLarge) /\ UNCHANGED offsetArgs
                     ELSE /\ offsetArgs' = Append(offsetArgs, flashOffset')
                          /\ Goto("erase")
                          /\ UNCHANGED <<locals, report>>

\* device.create() settles.
Create ==
  /\ pc = "create"
  /\ \/ \E f \in Families, total \in TotalSizes \cup {NoFlash} :
          /\ Resolved("create")
          /\ AfterCreate(f, total)
     \/ \E e \in {DeviceUnsupported, Malformed} :
          /\ Rejected("create")
          /\ Throw(e)
          /\ UNCHANGED <<device, checkedLen, offsetArgs>>
  /\ UNCHANGED <<env, progress, portOpen, portHist, writeArg, touchLog>>

\* Mutant of Erase: a rejected erase does not stop the pipeline.
EraseIgnoringFailure ==
  /\ pc = "erase"
  /\ Resolved("erase") \/ Rejected("erase")
  /\ writeArg' = firmwareData
  /\ offsetArgs' = Append(offsetArgs, flashOffset)
  /\ Goto("write")
  /\ UNCHANGED <<env, progress, locals, report, device, portOpen, portHist,
                 checkedLen, touchLog>>

\* flasher.erase(flashOffset) settles; flasher.write is called with the
\* firmwareData of that moment and the same flashOffset.
Erase ==
  /\ pc = "erase"
  /\ \/ /\ Resolved("erase")
        /\ writeArg' = firmwareData
        /\ offsetArgs' = Append(offsetArgs, flashOffset)
        /\ Goto("write")
        /\ UNCHANGED <<locals, report>>
     \/ /\ Rejected("erase")
        /\ Throw(EraseTimeout)
        /\ UNCHANGED flashArgs
  /\ UNCHANGED <<env, progress, device, portOpen, portHist, checkedLen,
                 touchLog>>

\* Mutant of Write: a rejected write does not stop the pipeline.
WriteIgnoringFailure ==
  /\ pc = "write"
  /\ Resolved("write") \/ Rejected("write")
  /\ Goto("reset")
  /\ UNCHANGED <<env, progress, locals, report, device, portOpen, portHist,
                 checkedLen, callArgs>>

\* flasher.write(data, offset) settles: it rejects a null image and an image
\* that does not fit (offset + length > totalSize), and may time out.
Write ==
  /\ pc = "write"
  /\ \/ /\ writeArg # NoData
        /\ flashOffset + writeArg <= totalSize
        /\ Resolved("write")
        /\ progress' = IF writeArg > 0 THEN 100 ELSE progress
        /\ Goto("reset")
        /\ UNCHANGED <<locals, report>>
     \/ /\ Rejected("write")
        /\ Throw(IF writeArg = NoData THEN NullLength
                 ELSE IF flashOffset + writeArg > totalSize THEN ImageTooLarge
                 ELSE WriteTimeout)
        /\ UNCHANGED progress
  /\ UNCHANGED <<env, device, portOpen, portHist, checkedLen, callArgs>>

\* device.reset() settles; the device restarts into the application, so the
\* call may reject because the link went away.
Reset ==
  /\ pc = "reset"
  /\ \/ /\ Resolved("reset")
        /\ Goto("disconnect")
        /\ UNCHANGED <<locals, report>>
     \/ /\ Rejected("reset")
        /\ Throw(LinkClosed)
  /\ UNCHANGED <<env, progress, device, portOpen, portHist, checkedLen, callArgs>>

\* samba.disconnect() settles: it releases the link and may close the port; a
\* rejection changes nothing.
DisconnectSettles(op) ==
  \/ /\ Resolved(op)
     /\ portOpen' \in {portOpen, portOpen \ {bootloaderPort}}
  \/ /\ Rejected(op)
     /\ UNCHANGED portOpen

\* port.close() settles on the bootloader port.
CloseSettles(op, p) ==
  /\ CloseCalled(p)
  /\ \/ /\ p \in portOpen
        /\ portOpen' = portOpen \ {p}
        /\ Resolved(op)
     \/ /\ Rejected(op)
        /\ UNCHANGED portOpen

\* The disconnect of the success path; its rejection is ignored.
Disconnect ==
  /\ pc = "disconnect"
  /\ DisconnectSettles("disconnect")
  /\ Goto("close")
  /\ UNCHANGED <<env, progress, locals, device, portHist, report, checkedLen,
                 callArgs>>

\* The close of the success path; its rejection is ignored.  Success is
\* reported, the progress bar is set to 100 and the finally block runs.
Close ==
  /\ pc = "close"
  /\ CloseSettles("close", bootloaderPort)
  /\ outcomes' = Append(outcomes, Success)
  /\ progress' = 100
  /\ UNCHANGED <<caught, cleanupLog>>
  /\ Goto("done")
  /\ UNCHANGED <<env, locals, device, checkedLen, callArgs>>

\* Mutant of CleanupDisconnect: without its try/catch a rejected disconnect
\* leaves the catch block, and the closes that follow are skipped.
CleanupDisconnectPropagates ==
  /\ pc = "cleanupDisconnect"
  /\ \/ /\ Resolved("cleanupDisconnect")
        /\ portOpen' \in {portOpen, portOpen \ {bootloaderPort}}
        /\ Goto(AfterDisconnectPc)
     \/ /\ Rejected("cleanupDisconnect")
        /\ UNCHANGED portOpen
        /\ Goto("done")
  /\ UNCHANGED <<env, progress, locals, device, portHist, report, checkedLen,
                 callArgs>>

\* ----------------------------------------------------------------- cleanup
\* The three cleanup steps of the catch block.  Each has a try/catch of its
\* own whose handler is empty: a rejection is ignored and nothing is logged.
CleanupDisconnect ==
  /\ pc = "cleanupDisconnect"
  /\ DisconnectSettles("cleanupDisconnect")
  /\ cleanupLog' = cleanupLog
  /\ Goto(AfterDisconnectPc)
  /\ UNCHANGED <<env, progress, locals, device, portHist, outcomes, caught,
                 checkedLen, callArgs>>

CleanupClose ==
  /\ pc \in {"cleanupBootClose", "cleanupNormalClose"}
  /\ IF pc = "cleanupBootClose"
     THEN CloseSettles(pc, bootloaderPort) /\ Goto(AfterBootClosePc)
     ELSE CloseSettles(pc, normalPort) /\ Goto("done")
  /\ cleanupLog' = cleanupLog
  /\ UNCHANGED <<env, progress, locals, device, outcomes, caught, checkedLen,
                 callArgs>>

Next ==
  \/ FileCleared \/ FileChosen \/ FileRead \/ FileReadFailed
  \/ FlashStart \/ RequestPort1 \/ ProbeOpen \/ ProbeClose
  \/ TouchOpen \/ TouchSignals \/ TouchSleep \/ TouchClose \/ TouchSettle
  \/ GetPorts \/ RequestPort2
  \/ Connect \/ Create \/ Erase \/ Write \/ Reset \/ Disconnect \/ Close
  \/ CleanupDisconnect \/ CleanupClose

Spec == Init /\ [][Next]_vars

\* The steps of a run: the awaited call flashFirmware is suspended at settles.
RunStep ==
  \/ RequestPort1 \/ ProbeOpen \/ ProbeClose
  \/ TouchOpen \/ TouchSignals \/ TouchSleep \/ TouchClose \/ TouchSettle
  \/ GetPorts \/ RequestPort2
  \/ Connect \/ Create \/ Erase \/ Write \/ Reset \/ Disconnect \/ Close
  \/ CleanupDisconnect \/ CleanupClose

\* Every awaited call of a run settles in the end; nothing is assumed about
\* when files are chosen or read.
FairSpec == Spec /\ WF_vars(RunStep)

\* ------------------------------------------------------------------ claims
Reported(e) == outcomes = <<Outcome(e)>>
CaughtAt(op, e) == caught = <<[at |-> op, error |-> e]>>

\* C1: the hardware steps happen in the order connect, identify, erase, write,
\* application-start reset: identify is issued only after connect succeeded,
\* erase only after connect and identify succeeded, write only after erase
\* succeeded, and the reset only after write succeeded.
C1_PipelineOrder ==
  /\ "create" \in issued => "connect" \in completed
  /\ "erase" \in issued => {"connect", "create"} \subseteq completed
  /\ "write" \in issued => "erase" \in completed
  /\ "reset" \in issued => "write" \in completed

C1_Witness == pc = "done" /\ "reset" \in completed

\* C2: the size check fails exactly when the image length exceeds totalSize
\* minus the flash offset; when it fails the run reports the image-too-large
\* error and issues neither erase nor write, and when the length is at most
\* (also exactly) the available flash the check passes and erase is issued.
C2_SizeCheck ==
  checkedLen # NoData =>
    IF checkedLen > totalSize - flashOffset
    THEN /\ Reported(FirmwareTooLarge)
         /\ issued \cap {"erase", "write"} = {}
    ELSE /\ ~CaughtAt("create", FirmwareTooLarge)
         /\ "erase" \in issued

C2_Witness ==
  /\ checkedLen > 0
  /\ checkedLen = totalSize - flashOffset
  /\ flashOffset = BOOTLOADER_SIZE
  /\ "erase" \in completed

\* C3 as stated: an image larger than the available flash is refused with no
\* hardware traffic: no port was opened and no connect or identify was issued.
C3_NoTrafficBeforeTooLarge ==
  CaughtAt("create", FirmwareTooLarge) =>
    /\ openedByRun = {}
    /\ issued \cap {"connect", "create", "erase", "write"} = {}

\* C3 as amended: an image larger than the available flash is refused with the
\* image-too-large error before any erase, write or reset is issued, but only
\* after the bootloader port was opened and connect and identify succeeded.
C3_TooLargeAfterIdentify ==
  CaughtAt("create", FirmwareTooLarge) =>
    /\ Reported(FirmwareTooLarge)
    /\ bootloaderPort \in openedByRun
    /\ {"connect", "create"} \subseteq completed
    /\ rejected \cap {"connect", "create"} = {}
    /\ issued \cap {"erase", "write", "reset"} = {}

C3_Witness ==
  /\ pc = "done"
  /\ CaughtAt("create", FirmwareTooLarge)
  /\ checkedLen = totalSize - flashOffset + 1

\* C4: when device.create() rejects with DeviceUnsupported the run reports the
\* 'device not supported' outcome and sends no erase, write or reset.
C4_UnsupportedDevice ==
  ("create" \in rejected /\ CaughtAt("create", DeviceUnsupported)) =>
    /\ outcomes = <<[kind |-> "unsupported", message |-> "DeviceUnsupported"]>>
    /\ issued \cap {"erase", "write", "reset"} = {}

C4_Witness ==
  pc = "done" /\ "create" \in rejected /\ CaughtAt("create", DeviceUnsupported)

\* C5 as stated: when samba.connect() times out, the run reports the
\* Unresponsive failure and, once flashFirmware has returned, every port the
\* run opened is closed.
C5_ConnectTimeoutClosesPorts ==
  (pc = "done" /\ CaughtAt("connect", Unresponsive)) =>
    /\ outcomes = <<[kind |-> "failed", message |-> "Unresponsive"]>>
    /\ openedByRun \cap portOpen = {}

\* C6 as stated: at every point of a run at most one serial port is open.
C6_AtMostOneOpen == Cardinality(portOpen) <= 1

\* C7 as stated: when flashFirmware returns, close() has been called, after
\* its last successful open, on every port the run opened that is still open.
C7_CloseIssuedOnExit ==
  pc = "done" => (openedByRun \cap portOpen) \subseteq closeIssued

CleanupPcs == {"cleanupDisconnect", "cleanupBootClose", "cleanupNormalClose"}

\* The part of C8 on control flow: once an error reached the catch block, the
\* run stays in the cleanup until it returns; every cleanup call whose
\* reference is set is made, also after an earlier cleanup call rejected; and
\* the reported outcome stays the one of the original error.
CleanupBestEffort ==
  caught # <<>> =>
    /\ pc \in CleanupPcs \cup {"done"}
    /\ outcomes = <<Outcome(caught[1].error)>>
    /\ Len(caught) = 1
    /\ pc = "done" =>
         /\ samba => "cleanupDisconnect" \in completed \cup rejected
         /\ bootloaderPort # NoPort =>
              "cleanupBootClose" \in completed \cup rejected
         /\ (normalPort # NoPort /\ normalPort # bootloaderPort) =>
              "cleanupNormalClose" \in completed \cup rejected

C9_LinkClosedIsSuccess ==
  (pc = "done" /\ "write" \in completed /\ "reset" \in issued) =>
    outcomes = <<Success>>

Pipeline == {"connect", "create", "erase", "write", "reset"}

\* C10: a run that got past its guards reports at most one outcome while it
\* runs and exactly one when it returns, and it reports success only if
\* connect, identify, the size check, erase, write and reset all completed and
\* no error was caught.
C10_OneOutcome ==
  /\ Len(outcomes) <= 1
  /\ pc = "done" => Len(outcomes) = 1
  /\ \A i \in 1..Len(outcomes) :
       outcomes[i].kind = "success" =>
         /\ Pipeline \subseteq completed
         /\ rejected \cap Pipeline = {}
         /\ checkedLen # NoData
         /\ checkedLen <= totalSize - flashOffset
         /\ caught = <<>>

C10_Witness ==
  pc = "done" /\ outcomes = <<Success>> /\ "close" \in rejected

\* C11: when the operator declines a port prompt (requestPort rejects with
\* NotFoundError), at the first prompt or at the fallback prompt, the run
\* reports the neutral 'cancelled by user' outcome and not a failure, and no
\* connect, identify, erase or write is issued.
C11_CancelIsNeutral ==
  \A at \in {"requestPort1", "requestPort2"} :
    CaughtAt(at, NotFoundError) =>
      /\ outcomes = <<[kind |-> "cancelled", message |-> NotFoundError.message]>>
      /\ issued \cap {"connect", "create", "erase", "write"} = {}
      /\ ~samba

C11_Witness ==
  pc = "done" /\ CaughtAt("requestPort2", NotFoundError) /\ openedByRun # {}

\* The awaits of resetToBootloader.
TouchPcs == {"touchOpen", "touchSignals1", "touchSleep1", "touchSignals2",
             "touchSleep2", "touchSignals3", "touchClose", "touchSettle"}

\* No step of resetToBootloader, failed or not, reaches the catch block of
\* flashFirmware or reports an outcome: the run stays in resetToBootloader or
\* moves on to the discovery of the bootloader port.
ResetNeverPropagates ==
  pc \in TouchPcs =>
    /\ pc' \in TouchPcs \cup {"getPorts"}
    /\ caught' = caught
    /\ outcomes' = outcomes

\* C12 as stated: a failure inside resetToBootloader is never propagated, and
\* after it returned the run always proceeds to the discovery of the
\* bootloader port and from there to connect.
C12_ResetThenAlwaysConnect ==
  [][/\ ResetNeverPropagates
     /\ pc \in {"getPorts", "requestPort2"} =>
          pc' \in {"getPorts", "requestPort2", "connect"}]_vars

\* C12 as amended: a failure inside resetToBootloader is never propagated, and
\* after it returned the run always proceeds to the discovery of the
\* bootloader port; from there it proceeds to connect unless discovery found
\* no port and the fallback prompt was rejected, which ends the run with that
\* rejection and without a connect.
C12_ResetThenDiscovery ==
  [][/\ ResetNeverPropagates
     /\ pc = "getPorts" => pc' \in {"getPorts", "requestPort2", "connect"}
     /\ pc = "requestPort2" =>
          \/ pc' \in {"requestPort2", "connect"}
          \/ /\ \E e \in {NotFoundError, SecurityError} :
                   caught' = Append(caught, [at |-> "requestPort2", error |-> e])
             /\ "connect" \notin issued']_vars

C12_Witness ==
  /\ pc = "connect"
  /\ normalPort = NoPort
  /\ openedByRun \cap portOpen # {}
  /\ closeIssued = {}
  /\ caught = <<>>

\* C13 as stated: the image handed to flasher.write is the image whose length
\* passed the size check, and it is not null, whatever handleFileSelect did
\* to firmwareData while the run was suspended.
C13_ImageFixedForRun ==
  "write" \in issued => (writeArg # NoData /\ writeArg = checkedLen)

\* C14: the application offset is 0x2000 for the SAMD21, SAMR21 and SAML21
\* families and 0 for every other family; erase is called with that offset and
\* write with the offset erase was called with, so no erase starts below the
\* application offset and no write starts at another address than the erase.
C14_OffsetByFamily ==
  /\ "erase" \in issued <=> offsetArgs # <<>>
  /\ "write" \in issued <=> Len(offsetArgs) = 2
  /\ \A i \in 1..Len(offsetArgs) :
       offsetArgs[i] = IF family \in {"FAMILY_SAMD21", "FAMILY_SAMR21",
                                     "FAMILY_SAML21"}
                       THEN 8192
                       ELSE 0

C14_Witness ==
  /\ "write" \in completed
  /\ family = "FAMILY_SAML21"
  /\ offsetArgs = <<BOOTLOADER_SIZE, BOOTLOADER_SIZE>>

\* The kind of the error taxonomy an error belongs to; "none" for the errors
\* outside the taxonomy (browser and runtime errors).
ErrorKind(e) ==
  CASE e = Unresponsive -> "Unresponsive"
    [] e = Malformed -> "Malformed"
    [] e = DeviceUnsupported -> "Unsupported"
    [] e = EraseTimeout -> "EraseTimeout"
    [] e = WriteTimeout -> "WriteTimeout"
    [] e \in {FirmwareTooLarge, ImageTooLarge} -> "ImageTooLarge"
    [] e = NotFoundError -> "UserCancelled"
    [] OTHER -> "none"

TaxonomyErrors ==
  {Unresponsive, Malformed, DeviceUnsupported, EraseTimeout, WriteTimeout,
   FirmwareTooLarge, ImageTooLarge, NotFoundError}

\* C15 as stated: an error of the taxonomy is reported through an outcome of
\* its own: the branch of the catch block that reports it is not the branch
\* any error of another kind is reported through.
C15_DistinctOutcomes ==
  \A i \in 1..Len(caught) :
    ErrorKind(caught[i].error) # "none" =>
      \A other \in TaxonomyErrors :
        ErrorKind(other) # ErrorKind(caught[i].error) =>
          Classify(other) # outcomes[i].kind

\* The positions of a list of ports whose vendor id is in the allow-list, and
\* the first port of the list at such a position.
Matches(ports) ==
  {i \in 1..Len(ports) : usbVendorId(ports[i]) \in {39322, 9025, 6991, 1003}}

FirstMatch(ports) ==
  IF Matches(ports) = {} THEN NoPort
  ELSE ports[CHOOSE i \in Matches(ports) : \A j \in Matches(ports) : i <= j]

\* A step of the discovery: getPorts() or the fallback prompt settles.
DiscoveryStep ==
  /\ (pc = "getPorts" /\ pc' # pc) =>
       \/ /\ pc' = "connect"
          /\ \E ports \in PortLists :
               FirstMatch(ports) # NoPort /\ bootloaderPort' = FirstMatch(ports)
       \/ /\ pc' = "requestPort2"
          /\ bootloaderPort' = NoPort
          /\ ~samba'
  /\ (pc # "requestPort2" /\ pc' = "requestPort2") => pc = "getPorts"
  /\ (pc = "requestPort2" /\ pc' = "connect") =>
       usbVendorId(bootloaderPort') \in USB_FILTERS
  /\ pc \in {"getPorts", "requestPort2"} =>
       /\ portOpen' = portOpen
       /\ openedByRun' = openedByRun
       /\ issued' \subseteq issued \cup {"connect"}
       /\ "connect" \in issued' => pc' = "connect"

IsTouchAction(entry) == entry.call # "sleep 100"
TouchActions == SelectSeq(touchLog, IsTouchAction)

TouchOrder ==
  <<"open baudRate 1200", "setSignals dataTerminalReady false",
    "setSignals dataTerminalReady true", "setSignals dataTerminalReady false",
    "close", "sleep 2000">>

\* C17: when no step of resetToBootloader fails its actions occur in the
\* order open at 1200 baud, deassert DTR, assert DTR, deassert DTR, close,
\* settle wait; the port is closed when the settle wait begins; and connect is
\* not started before the settle wait has finished.
C17_TouchOrder ==
  (\A i \in 1..Len(touchLog) : touchLog[i].ok) =>
    /\ Len(TouchActions) <= Len(TouchOrder)
    /\ \A i \in 1..Len(TouchActions) : TouchActions[i].call = TouchOrder[i]
    /\ pc = "touchSettle" =>
         /\ Len(TouchActions) = 5
         /\ normalPort \notin portOpen
         /\ normalPort \in closeIssued
    /\ (pc \in {"getPorts", "requestPort2"} \/ "connect" \in issued) =>
         Len(TouchActions) = 6

C17_Witness ==
  /\ pc = "connect"
  /\ Len(touchLog) = 8
  /\ \A i \in 1..Len(touchLog) : touchLog[i].ok

\* C18: whenever the first prompt returned a port, resetToBootloader is
\* invoked before connect whatever the probe did: the probe sends no protocol
\* command, the 'already in bootloader mode' branch is never taken, and the
\* protocol client of the pipeline is never connected to the originally
\* selected port reference nor before a touch reset was attempted.
C18_ResetBeforeConnect ==
  /\ pc \in {"probeOpen", "probeClose"} => (issued = {} /\ ~samba)
  /\ (samba \/ "connect" \in issued) =>
       /\ touchLog # <<>>
       /\ touchLog[1].call = "open baudRate 1200"
       /\ normalPort = NoPort

C18_Witness ==
  /\ pc = "touchOpen"
  /\ normalPort \in closeIssued
  /\ normalPort \notin portOpen

\* A run of flashFirmware is between disabling the controls and its finally
\* block.
RunInProgress == pc \notin {"idle", "returned", "done"}

\* C19 as stated: while a run is in progress the flash button stays disabled,
\* also when a handleFileSelect that started before the run completes during
\* it and calls updateUI, so that no click can start a second run.
C19_ButtonDisabledDuringRun == RunInProgress => flashBtnDisabled

\* A call of flashFirmware that returns at one of its guards: the controls
\* and the progress bar are untouched and nothing of the run has happened
\* or happens later.
EarlyReturn ==
  /\ (pc # "returned" /\ pc' = "returned") =>
       /\ pc = "idle"
       /\ firmwareData = NoData \/ ~serialSupported
       /\ UNCHANGED <<flashBtnDisabled, fileInputDisabled, progress>>
  /\ (pc = "idle" /\ pc' \notin {"idle", "returned"}) =>
       /\ firmwareData # NoData /\ serialSupported
       /\ flashBtnDisabled' /\ fileInputDisabled'
       /\ pc' = "requestPort1"
  /\ pc = "returned" =>
       /\ pc' = "returned"
       /\ UNCHANGED <<locals, portOpen, issued, openedByRun, touchLog>>

\* The finally block: a run ends with both controls enabled.
FinallyEnables ==
  (pc # "done" /\ pc' = "done") => (~flashBtnDisabled' /\ ~fileInputDisabled')

\* C20: if every awaited call settles, a run that disabled the flash button
\* and the file input ends, on success, on an error and on cancellation, and
\* at its end both are enabled; a call that returns early because no firmware
\* is loaded or serial is unsupported leaves the controls and the progress bar
\* as they were and requests no port.
C20_ControlsReEnabled ==
  /\ RunInProgress ~> (pc = "done" /\ ~flashBtnDisabled /\ ~fileInputDisabled)
  /\ [][FinallyEnables /\ EarlyReturn]_vars

C20_Witness ==
  /\ pc = "done"
  /\ ~flashBtnDisabled
  /\ ~fileInputDisabled
  /\ "cleanupBootClose" \in rejected

====
